---- MODULE Spec2Model ----
(***************************************************************************)
(* Turbidity dashboard: the ingestion controller of the current Dashboard  *)
(* component (src/unnamed/part_001, lines 1-638) together with the reading *)
(* store it queries.                                                       *)
(*                                                                         *)
(* Conventions                                                             *)
(*  - Timestamps (created_at, fullDate, Date.now) are whole hours.  The    *)
(*    source's "milliseconds / 3600000" is therefore a difference of two   *)
(*    timestamps of the model.                                             *)
(*  - A JavaScript number that is not an integer is an exact rational      *)
(*    [num, den] with den > 0; comparisons are cross-multiplied.           *)
(*  - React state set by a handler is modelled as set at once (a handler   *)
(*    runs to completion and reads only refs and its closure).  The        *)
(*    passive effect that copies state into the refs (lines 35-38) runs    *)
(*    later, as the separate step SyncRefs.  Effects caused by a click     *)
(*    (toggle, range change) run with the click.                           *)
(*  - The store is append-only, ids are 1, 2, 3, ... and created_at        *)
(*    increases strictly with the id.  A query is answered at some moment  *)
(*    between its issue and its completion: a request remembers how many   *)
(*    rows the store held at its issue, and its completion sees the first  *)
(*    n rows for some n between that number and the present one.           *)
(*  - A value that is no number (the value of a malformed row, and what    *)
(*    arithmetic makes of it) is NaN, encoded as an integer that no        *)
(*    reading takes.                                                       *)
(*  - The presentation-only state newDataAlert and the console output are  *)
(*    left out.                                                            *)
(***************************************************************************)
EXTENDS Integers, Sequences, FiniteSets, Bags, TLC

(***************************************************************************)
(* Bounds of the model                                                     *)
(***************************************************************************)
\* rows the store may come to hold
MaxStore == 3
\* last value of the clock, in ticks of TickHours
MaxTicks == 2
\* store requests that may be outstanding at once
MaxInFlight == 2
\* capacity of the window: limit(1000) and slice(-1000) in the source,
\* scaled down so that eviction happens within MaxStore rows
WindowCap == 2

(***************************************************************************)
(* Program constants                                                       *)
(***************************************************************************)
SENSOR_MAX == 3000
ThNormal == 100
ThWarning == 500
ThDanger == 1000
ThCritical == 1500
DayHours == 24
\* one tick of the clock: half a day
TickHours == DayHours \div 2
WeekHours == 168
MonthHours == 720
\* thresholds of src/src/Dashboard.jsx
JsxNormal == 1500
JsxWarning == 2000
JsxDanger == 3000
JsxCritical == 5000
TrendLookback == 10
SlopePairs == 6

\* raw sensor values a reading may carry (inverted: 50 and 1600); the
\* modelled signal alternates between the two levels, starting at either
RawValues == {2950, 1400}
\* the ranges the model selects; "month" behaves as "week" within MaxTicks
TimeRanges == {"today", "week"}

VARIABLES
  store,             \* rows of turbidity_readings, ascending id
  now,               \* the clock, in hours
  inflight,          \* bag of outstanding store requests
  mounted,           \* the component has mounted and its first effect has run
  turbidityData,     \* the Window (React state)
  stats,
  error,
  alertLevel,
  lastUpdate,
  isLive,
  riskAssessment,
  accumulationRate,  \* hundredths of NTU/hour
  daysToClog,        \* <<>> (null) or <<tenths of a day>>
  stabilityIndex,
  distribution,
  timeRange,
  loading,
  lastDataId,        \* the cursor (ref)
  chartDataRef,
  statsRef,
  turbidityDataRef,
  timerLive          \* the active intervals: isLive as each callback captured it

vars == <<store, now, inflight, mounted, turbidityData, stats, error,
          alertLevel, lastUpdate, isLive, riskAssessment, accumulationRate,
          daysToClog, stabilityIndex, distribution, timeRange, loading,
          lastDataId, chartDataRef, statsRef, turbidityDataRef, timerLive>>

\* the analytics part of the published snapshot
analytics == <<stats, alertLevel, riskAssessment, accumulationRate,
               daysToClog, stabilityIndex, distribution>>

envVars == <<store, now>>
uiVars == <<isLive, timeRange, timerLive, mounted>>
refVars == <<statsRef, turbidityDataRef>>

(***************************************************************************)
(* Arithmetic helpers                                                      *)
(***************************************************************************)
Min(a, b) == IF a <= b THEN a ELSE b
Max(a, b) == IF a >= b THEN a ELSE b
Abs(a) == IF a < 0 THEN -a ELSE a

RECURSIVE Gcd(_, _)
Gcd(a, b) == IF b = 0 THEN a ELSE Gcd(b, a % b)

\* the rational n/d in lowest terms, d > 0
Rat(n, d) ==
  LET g == Gcd(Abs(n), d)
  IN  [num |-> n \div g, den |-> d \div g]

RatAdd(p, q) == Rat(p.num * q.den + q.num * p.den, p.den * q.den)

\* Math.round: the nearest integer, halves towards +infinity
MathRound(q) == (2 * q.num + q.den) \div (2 * q.den)

\* Number(x.toFixed(k)) scaled by 10^k = scale: nearest, halves away from 0
ToFixedScaled(q, scale) ==
  LET a == Abs(q.num) * scale
      r == (2 * a + q.den) \div (2 * q.den)
  IN  IF q.num < 0 THEN -r ELSE r

RECURSIVE SumSeq(_)
SumSeq(s) == IF s = <<>> THEN 0 ELSE Head(s) + SumSeq(Tail(s))

RECURSIVE MaxSeq(_)
MaxSeq(s) == IF Len(s) = 1 THEN s[1] ELSE Max(Head(s), MaxSeq(Tail(s)))

Reverse(s) == [i \in 1..Len(s) |-> s[Len(s) + 1 - i]]

\* Array.prototype.slice(-n)
SliceLast(s, n) == IF Len(s) <= n THEN s ELSE SubSeq(s, Len(s) - n + 1, Len(s))

\* NaN of JavaScript: the outcome of arithmetic on a value that is no number
NaN == -999999
IsNumber(value) == value # NaN

(***************************************************************************)
(* The reading store (Supabase table turbidity_readings)                   *)
(***************************************************************************)
\* the rows the store held when it had n rows
RowsAt(n) == SubSeq(store, 1, n)

\* .select('id').order('id', desc).limit(1)
FetchLatestId(rows) == IF rows = <<>> THEN <<>> ELSE <<rows[Len(rows)].id>>

\* .gt('id', sinceId).order('id', asc)
FetchSince(rows, sinceId) == SelectSeq(rows, LAMBDA r : r.id > sinceId)

\* .order('created_at', desc): insertion sort; rows of equal created_at,
\* whose order the store does not define, do not occur in the model
RECURSIVE OrderByCreatedAtDesc(_)
OrderByCreatedAtDesc(rows) ==
  IF rows = <<>> THEN <<>>
  ELSE LET row == Head(rows)
           sorted == OrderByCreatedAtDesc(Tail(rows))
           k == Cardinality({i \in 1..Len(sorted) :
                               sorted[i].created_at > row.created_at})
       IN  SubSeq(sorted, 1, k) \o <<row>> \o SubSeq(sorted, k + 1, Len(sorted))

\* .order('created_at', desc).limit(limit) with created_at >= start
FetchRange(rows, start, limit) ==
  LET inRange == SelectSeq(rows, LAMBDA r : r.created_at >= start)
      desc == OrderByCreatedAtDesc(inRange)
  IN  SubSeq(desc, 1, Min(limit, Len(desc)))

(***************************************************************************)
(* Pure functions of the component                                         *)
(***************************************************************************)
\* faulty variant of invertIfNeeded (sensitivity of C29): the transform is
\* applied twice
invertIfNeeded_twice(value) == SENSOR_MAX - (SENSOR_MAX - value)

\* SENSOR_MAX - value; the difference is NaN when value is no number
invertIfNeeded(value) == IF IsNumber(value) THEN SENSOR_MAX - value ELSE NaN

\* start of the range selected by timeRange, at time t
buildDateFilter(range, t) ==
  IF range = "today" THEN t - (t % DayHours)
  ELSE IF range = "week" THEN t - WeekHours
  ELSE t - MonthHours

\* the object built from a row by fetchNewData and processTurbidityData
FormatRow(item) ==
  [id |-> item.id, value |-> invertIfNeeded(item.value),
   fullDate |-> item.created_at, originalValue |-> item.value]

FormatRows(data) == [i \in 1..Len(data) |-> FormatRow(data[i])]

\* data.map(d => Number(d.value) || 0)
ValuesOf(data) ==
  [i \in 1..Len(data) |-> IF IsNumber(data[i].value) THEN data[i].value ELSE 0]

calculateTrend(values) ==
  IF Len(values) < 2 THEN "stable"
  ELSE LET mid == Len(values) \div 2
           first == SubSeq(values, 1, mid)
           second == SubSeq(values, mid + 1, Len(values))
           s1 == SumSeq(first)
           s2 == SumSeq(second)
           l1 == Len(first)
           l2 == Len(second)
       IN  \* avg2 > avg1 * 1.1, avg2 < avg1 * 0.9
           IF 10 * s2 * l1 > 11 * s1 * l2 THEN "rising"
           ELSE IF 10 * s2 * l1 < 9 * s1 * l2 THEN "falling"
           ELSE "stable"

\* faulty variant of determineAlertLevel (sensitivity of C14): the danger
\* tier does not escalate on a rising trend
determineAlertLevel_flatDanger(latest, average, trend) ==
  LET avgGE(k) == average.num >= k * average.den
  IN  IF latest >= ThCritical \/ avgGE(ThCritical) THEN "critical"
      ELSE IF latest >= ThDanger \/ avgGE(ThDanger) THEN "danger"
      ELSE IF latest >= ThWarning \/ avgGE(ThWarning)
        THEN (IF trend = "rising" THEN "danger" ELSE "warning")
      ELSE IF latest >= ThNormal
        THEN (IF trend = "rising" THEN "warning" ELSE "normal")
      ELSE "normal"

\* faulty variant of determineAlertLevel (sensitivity of C37): the tiers
\* consult the average only
determineAlertLevel_averageOnly(latest, average, trend) ==
  LET avgGE(k) == average.num >= k * average.den
  IN  IF avgGE(ThCritical) THEN "critical"
      ELSE IF avgGE(ThDanger)
        THEN (IF trend = "rising" THEN "critical" ELSE "danger")
      ELSE IF avgGE(ThWarning)
        THEN (IF trend = "rising" THEN "danger" ELSE "warning")
      ELSE IF latest >= ThNormal
        THEN (IF trend = "rising" THEN "warning" ELSE "normal")
      ELSE "normal"

\* average is a rational
determineAlertLevel(latest, average, trend) ==
  LET avgGE(k) == average.num >= k * average.den
  IN  IF latest >= ThCritical \/ avgGE(ThCritical) THEN "critical"
      ELSE IF latest >= ThDanger \/ avgGE(ThDanger)
        THEN (IF trend = "rising" THEN "critical" ELSE "danger")
      ELSE IF latest >= ThWarning \/ avgGE(ThWarning)
        THEN (IF trend = "rising" THEN "danger" ELSE "warning")
      ELSE IF latest >= ThNormal
        THEN (IF trend = "rising" THEN "warning" ELSE "normal")
      ELSE "normal"

\* determineAlertLevel of src/src/Dashboard.jsx (lines 230-241, thresholds
\* of lines 24-29): the fourth tier consults the average as well
determineAlertLevel_DashboardJsx(latest, average, trend) ==
  LET avgGE(k) == average.num >= k * average.den
  IN  IF latest >= JsxCritical \/ avgGE(JsxCritical) THEN "critical"
      ELSE IF latest >= JsxDanger \/ avgGE(JsxDanger)
        THEN (IF trend = "rising" THEN "critical" ELSE "danger")
      ELSE IF latest >= JsxWarning \/ avgGE(JsxWarning)
        THEN (IF trend = "rising" THEN "danger" ELSE "warning")
      ELSE IF latest >= JsxNormal \/ avgGE(JsxNormal)
        THEN (IF trend = "rising" THEN "warning" ELSE "normal")
      ELSE "normal"

\* getStatus, lines 381-386: the status line of a value, without its icon
getStatus(v) ==
  IF v >= ThCritical THEN "Critical Turbidity"
  ELSE IF v >= ThDanger THEN "High Turbidity"
  ELSE IF v >= ThWarning THEN "Moderate Turbidity"
  ELSE "Clear Water"

\* faulty variant of predictCloggingRisk (sensitivity of C15): the raw test
\* of the HIGH entry uses the warning threshold
predictCloggingRisk_lowHigh(latest, average, trend, currentAlertLevel) ==
  IF currentAlertLevel = "critical" \/ latest >= ThCritical THEN "EXTREME"
  ELSE IF currentAlertLevel = "danger" \/ latest >= ThWarning THEN "HIGH"
  ELSE IF currentAlertLevel = "warning" \/ latest >= ThWarning THEN "MODERATE"
  ELSE "LOW"

\* the risk entry is named by its risk field
predictCloggingRisk(latest, average, trend, currentAlertLevel) ==
  IF currentAlertLevel = "critical" \/ latest >= ThCritical THEN "EXTREME"
  ELSE IF currentAlertLevel = "danger" \/ latest >= ThDanger THEN "HIGH"
  ELSE IF currentAlertLevel = "warning" \/ latest >= ThWarning THEN "MODERATE"
  ELSE "LOW"

\* faulty variant of DistributionOf (sensitivity of C22): a value equal to
\* a threshold stays in the band below it
DistributionOf_inclusive(values) ==
  LET count(P(_)) == Cardinality({i \in 1..Len(values) : P(values[i])})
  IN  [normal   |-> count(LAMBDA v : v <= ThNormal),
       warning  |-> count(LAMBDA v : v > ThNormal /\ v <= ThWarning),
       danger   |-> count(LAMBDA v : v > ThWarning /\ v <= ThDanger),
       critical |-> count(LAMBDA v : v > ThDanger)]

\* the bins object of computeDistribution
DistributionOf(values) ==
  LET count(P(_)) == Cardinality({i \in 1..Len(values) : P(values[i])})
  IN  [normal   |-> count(LAMBDA v : v < ThNormal),
       warning  |-> count(LAMBDA v : v >= ThNormal /\ v < ThWarning),
       danger   |-> count(LAMBDA v : v >= ThWarning /\ v < ThDanger),
       critical |-> count(LAMBDA v : v >= ThDanger)]

\* the loop of computeAccumulationMetrics: [total, used] over pairs i-1, i
\* for i = from .. Len(formatted) (1-based)
RECURSIVE SlopeLoop(_, _)
SlopeLoop(formatted, i) ==
  IF i > Len(formatted) THEN [total |-> Rat(0, 1), used |-> 0]
  ELSE LET rest == SlopeLoop(formatted, i + 1)
           cur == formatted[i]
           prev == formatted[i - 1]
           dtHours == cur.fullDate - prev.fullDate
       IN  IF dtHours <= 0 THEN rest
           ELSE [total |-> RatAdd(Rat(cur.value - prev.value, dtHours), rest.total),
                 used |-> rest.used + 1]

\* faulty variant of AvgRate (sensitivity of C19): the total is divided by
\* the number of pairs looked at, skipped ones included
AvgRate_perPair(formatted) ==
  LET N == Min(SlopePairs, Len(formatted) - 1)
      loop == SlopeLoop(formatted, Len(formatted) - N + 1)
  IN  IF loop.used = 0 THEN Rat(0, 1)
      ELSE Rat(loop.total.num, loop.total.den * N)

\* avgRate of computeAccumulationMetrics, for Len(formatted) >= 2
AvgRate(formatted) ==
  LET N == Min(SlopePairs, Len(formatted) - 1)
      loop == SlopeLoop(formatted, Len(formatted) - N + 1)
  IN  IF loop.used = 0 THEN Rat(0, 1)
      ELSE Rat(loop.total.num, loop.total.den * loop.used)

\* faulty variant of AccumulationOf (sensitivity of C20): the projection is
\* not cut off at zero once the critical threshold is passed
AccumulationOf_uncut(formatted) ==
  IF Len(formatted) < 2
  THEN [rate |-> 0, days |-> <<>>, stability |-> 100]
  ELSE LET avgRate == AvgRate(formatted)
           current == formatted[Len(formatted)].value
           ntuLeft == ThCritical - current
           days == IF avgRate.num > 0
                   THEN ToFixedScaled(Rat(ntuLeft * avgRate.den, avgRate.num * 24), 10)
                   ELSE 0
           pct == Rat(Abs(avgRate.num) * 100, avgRate.den * ThCritical)
           stability == IF pct.num >= 100 * pct.den THEN Rat(0, 1)
                        ELSE Rat(100 * pct.den - pct.num, pct.den)
       IN  [rate |-> ToFixedScaled(avgRate, 100),
            days |-> IF avgRate.num > 0 THEN <<days>> ELSE <<>>,
            stability |-> MathRound(stability)]

\* faulty variant of AccumulationOf (sensitivity of C21): the stability
\* index is taken from the signed rate
AccumulationOf_signed(formatted) ==
  IF Len(formatted) < 2
  THEN [rate |-> 0, days |-> <<>>, stability |-> 100]
  ELSE LET avgRate == AvgRate(formatted)
           current == formatted[Len(formatted)].value
           ntuLeft == ThCritical - current
           days == IF avgRate.num > 0 /\ ntuLeft > 0
                   THEN ToFixedScaled(Rat(ntuLeft * avgRate.den, avgRate.num * 24), 10)
                   ELSE 0
           pct == Rat(avgRate.num * 100, avgRate.den * ThCritical)
           stability == IF pct.num >= 100 * pct.den THEN Rat(0, 1)
                        ELSE Rat(100 * pct.den - pct.num, pct.den)
       IN  [rate |-> ToFixedScaled(avgRate, 100),
            days |-> IF avgRate.num > 0 THEN <<days>> ELSE <<>>,
            stability |-> MathRound(stability)]

\* a pair the loop of computeAccumulationMetrics uses has a value that is
\* no number: totalRate, avgRate and all that is computed from them is NaN
SlopeIsNaN(formatted) ==
  LET N == Min(SlopePairs, Len(formatted) - 1)
  IN  \E i \in (Len(formatted) - N + 1)..Len(formatted) :
        /\ formatted[i].fullDate - formatted[i - 1].fullDate > 0
        /\ ~(IsNumber(formatted[i].value) /\ IsNumber(formatted[i - 1].value))

\* the three values computeAccumulationMetrics sets
AccumulationOf(formatted) ==
  IF Len(formatted) < 2
  THEN [rate |-> 0, days |-> <<>>, stability |-> 100]
  ELSE IF SlopeIsNaN(formatted)
  THEN \* NaN > 0 is false: setDaysToClog(null)
       [rate |-> NaN, days |-> <<>>, stability |-> NaN]
  ELSE LET avgRate == AvgRate(formatted)
           current == formatted[Len(formatted)].value
           \* NaN > 0 is false
           ntuLeft == IF IsNumber(current) THEN ThCritical - current ELSE 0
           \* hoursToClog / 24 = ntuLeft / avgRate / 24
           days == IF avgRate.num > 0 /\ ntuLeft > 0
                   THEN ToFixedScaled(Rat(ntuLeft * avgRate.den, avgRate.num * 24), 10)
                   ELSE 0
           \* |avgRate| / critical * 100
           pct == Rat(Abs(avgRate.num) * 100, avgRate.den * ThCritical)
           stability == IF pct.num >= 100 * pct.den THEN Rat(0, 1)
                        ELSE Rat(100 * pct.den - pct.num, pct.den)
       IN  [rate |-> ToFixedScaled(avgRate, 100),
            days |-> IF avgRate.num > 0 THEN <<days>> ELSE <<>>,
            stability |-> MathRound(stability)]

\* latest, average, highest, trend as both compute paths of part_001 derive
\* them from the ascending values
StatsOf(values) ==
  [latest |-> IF values = <<>> THEN 0 ELSE values[Len(values)],
   average |-> IF values = <<>> THEN 0
               ELSE MathRound(Rat(SumSeq(values), Len(values))),
   highest |-> IF values = <<>> THEN 0 ELSE MaxSeq(values),
   trend |-> calculateTrend(SliceLast(values, TrendLookback))]

AverageOf(values) ==
  IF values = <<>> THEN Rat(0, 1) ELSE Rat(SumSeq(values), Len(values))

AlertOf(values) ==
  LET s == StatsOf(values)
  IN  determineAlertLevel(s.latest, AverageOf(values), s.trend)

RiskOf(values) ==
  LET s == StatsOf(values)
  IN  predictCloggingRisk(s.latest, AverageOf(values), s.trend, AlertOf(values))

(***************************************************************************)
(* Store requests                                                          *)
(***************************************************************************)
\* a request: kind is "full", "probe" or "since"; arg is the range start of
\* a full fetch and the sinceId of a since fetch; n is the number of rows
\* the store held when the request was issued
Request(kind, arg) == [kind |-> kind, arg |-> arg, n |-> Len(store)]

\* the numbers of rows the store may have held when it answered r
AnswerTimes(r) == r.n .. Len(store)

Outstanding == BagToSet(inflight)
InFlightCount == BagCardinality(inflight)
Send(bag, r) == bag (+) SetToBag({r})
Receive(bag, r) == bag (-) SetToBag({r})


(***************************************************************************)
(* Initial state: the values of useState and useRef, lines 10-33           *)
(***************************************************************************)
Init ==
  /\ store = <<>>
  /\ now = 0
  /\ inflight = EmptyBag
  /\ mounted = FALSE
  /\ turbidityData = <<>>
  /\ stats = [latest |-> 0, average |-> 0, highest |-> 0, trend |-> "stable"]
  /\ error = "null"
  /\ alertLevel = "normal"
  /\ lastUpdate = 0
  /\ isLive = FALSE
  /\ riskAssessment = "null"
  /\ accumulationRate = 0
  /\ daysToClog = <<>>
  /\ stabilityIndex = 100
  /\ distribution = [normal |-> 0, warning |-> 0, danger |-> 0, critical |-> 0]
  /\ timeRange = "today"
  /\ loading = TRUE
  /\ lastDataId = 0
  /\ chartDataRef = <<>>
  /\ statsRef = stats
  /\ turbidityDataRef = <<>>
  /\ timerLive = <<>>

(***************************************************************************)
(* The environment: the sensor inserts rows, time passes                   *)
(***************************************************************************)
StoreInsert(v) ==
  /\ Len(store) < MaxStore
  /\ IF store = <<>> THEN TRUE ELSE store[Len(store)].value # v
  /\ IF store = <<>> THEN TRUE ELSE store[Len(store)].created_at < now
  /\ store' = Append(store, [id |-> Len(store) + 1, value |-> v, created_at |-> now])
  /\ UNCHANGED <<now, inflight, turbidityData, error, lastUpdate, loading,
                 lastDataId, chartDataRef>>
  /\ UNCHANGED <<analytics, uiVars, refVars>>

ClockTick ==
  /\ now < MaxTicks * TickHours
  /\ now' = now + TickHours
  /\ UNCHANGED <<store, inflight, turbidityData, error, lastUpdate, loading,
                 lastDataId, chartDataRef>>
  /\ UNCHANGED <<analytics, uiVars, refVars>>

(***************************************************************************)
(* Analytics setters                                                       *)
(***************************************************************************)
computeAccumulationMetrics(formatted) ==
  LET m == AccumulationOf(formatted)
  IN  /\ accumulationRate' = m.rate
      /\ daysToClog' = m.days
      /\ stabilityIndex' = m.stability

computeDistribution(values) == distribution' = DistributionOf(values)

\* faulty variant of ReplaceWindow (sensitivity of C8): the reversal is
\* forgotten, the window keeps the descending order of the query
ReplaceWindow_unreversed(data) == SliceLast(FormatRows(data), WindowCap)

\* faulty variant of ReplaceWindow (sensitivity of C23): the fetched
\* readings are appended to the Window instead of replacing it
ReplaceWindow_appending(data) ==
  SliceLast(turbidityData \o Reverse(FormatRows(data)), WindowCap)

\* the window processTurbidityData publishes for the fetched rows
\* (descending created_at): map, reverse, slice(-1000)
ReplaceWindow(data) == SliceLast(Reverse(FormatRows(data)), WindowCap)

processTurbidityData(data) ==
  LET formatted == Reverse(FormatRows(data))
      values == ValuesOf(formatted)
  IN  /\ computeAccumulationMetrics(formatted)
      /\ computeDistribution(values)
      /\ turbidityData' = ReplaceWindow(data)
      /\ chartDataRef' = ReplaceWindow(data)
      /\ stats' = StatsOf(values)
      /\ alertLevel' = AlertOf(values)
      /\ riskAssessment' = RiskOf(values)

updateStatsIncrementally(data) ==
  LET values == ValuesOf(data)
  IN  IF data = <<>> THEN UNCHANGED analytics
      ELSE /\ computeAccumulationMetrics(data)
           /\ computeDistribution(values)
           /\ stats' = StatsOf(values)
           /\ alertLevel' = AlertOf(values)
           /\ riskAssessment' = RiskOf(values)

(***************************************************************************)
(* FullRefresh: fetchTurbidityData, lines 117-156                          *)
(***************************************************************************)
\* up to the await: setLoading(true), setError(null), the query is sent
fetchTurbidityData(range) ==
  /\ InFlightCount < MaxInFlight
  /\ loading' = TRUE
  /\ error' = "null"
  /\ inflight' = Send(inflight, Request("full", buildDateFilter(range, now)))

\* the cursor after rows were fetched (descending created_at): data[0].id
CursorAfterFull(data) == data[1].id

\* lines 140-145: rows were fetched
fetchTurbidityData_rows(data) ==
  /\ lastDataId' = CursorAfterFull(data)
  /\ processTurbidityData(data)
  /\ lastUpdate' = now
  /\ error' = "null"

\* faulty variant of fetchTurbidityData_empty (sensitivity of C9): the
\* cursor is reset together with the window
fetchTurbidityData_empty_resetting ==
  /\ turbidityData' = <<>>
  /\ lastDataId' = 0
  /\ error' = "No data found in turbidity_readings table for selected range"
  /\ UNCHANGED <<chartDataRef, lastUpdate, analytics>>

\* lines 146-149: no row was fetched
fetchTurbidityData_empty ==
  /\ turbidityData' = <<>>
  /\ error' = "No data found in turbidity_readings table for selected range"
  /\ UNCHANGED <<lastDataId, chartDataRef, lastUpdate, analytics>>

\* the await returns the rows the store selected when it held n rows
fetchTurbidityData_done(r, n) ==
  /\ r \in Outstanding
  /\ r.kind = "full"
  /\ inflight' = Receive(inflight, r)
  /\ LET data == FetchRange(RowsAt(n), r.arg, WindowCap)
     IN  IF Len(data) > 0
         THEN fetchTurbidityData_rows(data)
         ELSE fetchTurbidityData_empty
  /\ loading' = FALSE
  /\ UNCHANGED <<envVars, uiVars, refVars>>

\* faulty variant of fetchTurbidityData_failed (sensitivity of C7): the
\* window is cleared as in the no-row branch
fetchTurbidityData_failed_clearing(message) ==
  /\ error' = message
  /\ turbidityData' = <<>>
  /\ UNCHANGED <<lastDataId, chartDataRef, lastUpdate, analytics>>

\* lines 134-138 and 150-152: the fetch failed, only the error is set
fetchTurbidityData_failed(message) ==
  /\ error' = message
  /\ UNCHANGED <<turbidityData, lastDataId, chartDataRef, lastUpdate, analytics>>

\* faulty variant of fetchTurbidityData_error (sensitivity of C38): the
\* return of line 137 leaves the function without the finally block
fetchTurbidityData_error_stuck(r) ==
  /\ r \in Outstanding
  /\ r.kind = "full"
  /\ inflight' = Receive(inflight, r)
  /\ fetchTurbidityData_failed("Failed to fetch data from database")
  /\ UNCHANGED loading
  /\ UNCHANGED <<envVars, uiVars, refVars>>

\* the await returns an error result: lines 134-138, then finally
fetchTurbidityData_error(r) ==
  /\ r \in Outstanding
  /\ r.kind = "full"
  /\ inflight' = Receive(inflight, r)
  /\ fetchTurbidityData_failed("Failed to fetch data from database")
  /\ loading' = FALSE
  /\ UNCHANGED <<envVars, uiVars, refVars>>

\* the await throws: lines 150-152, then finally
fetchTurbidityData_catch(r) ==
  /\ r \in Outstanding
  /\ r.kind = "full"
  /\ inflight' = Receive(inflight, r)
  /\ fetchTurbidityData_failed("An unexpected error occurred")
  /\ loading' = FALSE
  /\ UNCHANGED <<envVars, uiVars, refVars>>

(***************************************************************************)
(* IncrementalPoll: checkForNewData, lines 169-189, and fetchNewData,      *)
(* lines 192-227                                                           *)
(***************************************************************************)
\* up to the await of checkForNewData: the probe is sent
checkForNewData ==
  /\ InFlightCount < MaxInFlight
  /\ inflight' = Send(inflight, Request("probe", 0))

\* faulty variant of HasNewData (sensitivity of C6): >= for >
HasNewData_orEqual(latestId, cursor) == latestId >= cursor

\* line 184: latestId > lastDataId.current
HasNewData(latestId, cursor) == latestId > cursor

\* the probe returns what the store answered when it held n rows;
\* fetchNewData(lastDataId.current) runs up to its await
checkForNewData_done(r, n) ==
  /\ r \in Outstanding
  /\ r.kind = "probe"
  /\ LET data == FetchLatestId(RowsAt(n))
     IN  inflight' = IF Len(data) > 0 /\ HasNewData(data[1], lastDataId)
                     THEN Send(Receive(inflight, r), Request("since", lastDataId))
                     ELSE Receive(inflight, r)
  /\ UNCHANGED <<turbidityData, error, lastUpdate, loading, lastDataId, chartDataRef>>
  /\ UNCHANGED <<analytics, envVars, uiVars, refVars>>

\* faulty variant of checkForNewData_fail (sensitivity of C27): the failure
\* ends the polling, the interval is cleared
checkForNewData_fail_ending(r) ==
  /\ r \in Outstanding
  /\ r.kind = "probe"
  /\ inflight' = Receive(inflight, r)
  /\ timerLive' = <<>>
  /\ UNCHANGED <<turbidityData, error, lastUpdate, loading, lastDataId, chartDataRef>>
  /\ UNCHANGED <<analytics, envVars, refVars, isLive, timeRange, mounted>>

\* the probe returns an error result or throws: logged only
checkForNewData_fail(r) ==
  /\ r \in Outstanding
  /\ r.kind = "probe"
  /\ inflight' = Receive(inflight, r)
  /\ UNCHANGED <<turbidityData, error, lastUpdate, loading, lastDataId, chartDataRef>>
  /\ UNCHANGED <<analytics, envVars, uiVars, refVars>>

\* faulty variant of AppendWindow (sensitivity of C36): of a batch only the
\* last reading is appended
AppendWindow_lastOnly(base, newDataPoints) ==
  SliceLast(base \o SubSeq(newDataPoints, Len(newDataPoints),
                          Len(newDataPoints)), WindowCap)

\* line 216: [...turbidityDataRef.current, ...newDataPoints].slice(-1000)
AppendWindow(base, newDataPoints) == SliceLast(base \o newDataPoints, WindowCap)

\* faulty variant of CursorAfterSince (sensitivity of C10): the first
\* fetched row for the last
CursorAfterSince_first(data) == data[1].id

\* line 215: the cursor after rows were fetched (ascending id)
CursorAfterSince(data) == data[Len(data)].id

\* lines 205-223: rows were fetched
fetchNewData_rows(data) ==
  LET updatedData == AppendWindow(turbidityDataRef, FormatRows(data))
  IN  /\ lastDataId' = CursorAfterSince(data)
      /\ turbidityData' = updatedData
      /\ chartDataRef' = updatedData
      /\ updateStatsIncrementally(updatedData)
      /\ lastUpdate' = now

\* the fetch of the new rows returns what the store answered when it held n rows
fetchNewData_done(r, n) ==
  /\ r \in Outstanding
  /\ r.kind = "since"
  /\ inflight' = Receive(inflight, r)
  /\ LET data == FetchSince(RowsAt(n), r.arg)
     IN  IF Len(data) > 0
         THEN fetchNewData_rows(data)
         ELSE UNCHANGED <<lastDataId, turbidityData, chartDataRef, lastUpdate, analytics>>
  /\ UNCHANGED <<error, loading>>
  /\ UNCHANGED <<envVars, uiVars, refVars>>

\* the fetch of the new rows returns an error result or throws: logged only
fetchNewData_fail(r) ==
  /\ r \in Outstanding
  /\ r.kind = "since"
  /\ inflight' = Receive(inflight, r)
  /\ UNCHANGED <<turbidityData, error, lastUpdate, loading, lastDataId, chartDataRef>>
  /\ UNCHANGED <<analytics, envVars, uiVars, refVars>>

(***************************************************************************)
(* Effects, timer and commands                                             *)
(***************************************************************************)
\* faulty variant of PollEffect (sensitivity of C24): the effect returns no
\* cleanup, the intervals of earlier renders stay active
PollEffect_uncleared(range, live) ==
  /\ fetchTurbidityData(range)
  /\ timerLive' = Append(timerLive, live)

\* useEffect of lines 158-166 for the render with this range and isLive:
\* the cleanup of the previous run clears its interval (line 165), a
\* FullRefresh is issued and a new interval is set
PollEffect(range, live) ==
  /\ fetchTurbidityData(range)
  /\ timerLive' = <<live>>

\* first render and first run of the effect
Mount ==
  /\ ~mounted
  /\ mounted' = TRUE
  /\ PollEffect(timeRange, isLive)
  /\ UNCHANGED <<isLive, timeRange>>
  /\ UNCHANGED <<turbidityData, lastUpdate, lastDataId, chartDataRef>>
  /\ UNCHANGED <<analytics, envVars, refVars>>

\* the controls are rendered only while loading is false (lines 421-427)
ControlsShown == mounted /\ ~loading

\* line 397, followed by the effect (isLive is a dependency)
toggleLiveUpdates ==
  /\ ControlsShown
  /\ isLive' = ~isLive
  /\ PollEffect(timeRange, ~isLive)
  /\ UNCHANGED <<timeRange, mounted>>
  /\ UNCHANGED <<turbidityData, lastUpdate, lastDataId, chartDataRef>>
  /\ UNCHANGED <<analytics, envVars, refVars>>

\* faulty variant of onTimeRangeChange (sensitivity of C35): the effect
\* runs the fetchTurbidityData of the previous render
onTimeRangeChange_stale(range) ==
  /\ ControlsShown
  /\ range # timeRange
  /\ timeRange' = range
  /\ PollEffect(timeRange, isLive)
  /\ UNCHANGED <<isLive, mounted>>
  /\ UNCHANGED <<turbidityData, lastUpdate, lastDataId, chartDataRef>>
  /\ UNCHANGED <<analytics, envVars, refVars>>

\* lines 416-418, followed by the effect (fetchTurbidityData depends on
\* timeRange); setting the state to its current value renders nothing
onTimeRangeChange(range) ==
  /\ ControlsShown
  /\ range # timeRange
  /\ timeRange' = range
  /\ PollEffect(range, isLive)
  /\ UNCHANGED <<isLive, mounted>>
  /\ UNCHANGED <<turbidityData, lastUpdate, lastDataId, chartDataRef>>
  /\ UNCHANGED <<analytics, envVars, refVars>>

\* the Manual Refresh button, line 628
ManualRefresh ==
  /\ ControlsShown
  /\ fetchTurbidityData(timeRange)
  /\ UNCHANGED <<turbidityData, lastUpdate, lastDataId, chartDataRef>>
  /\ UNCHANGED <<analytics, envVars, uiVars, refVars>>

\* the interval callback, lines 161-163
TimerTick ==
  /\ mounted
  /\ \E i \in 1..Len(timerLive) : timerLive[i]
  /\ checkForNewData
  /\ UNCHANGED <<turbidityData, error, lastUpdate, loading, lastDataId, chartDataRef>>
  /\ UNCHANGED <<analytics, envVars, uiVars, refVars>>

\* the effect of lines 35-38, after a render that changed stats or
\* turbidityData
SyncRefs ==
  /\ <<statsRef, turbidityDataRef>> # <<stats, turbidityData>>
  /\ statsRef' = stats
  /\ turbidityDataRef' = turbidityData
  /\ UNCHANGED <<inflight, turbidityData, error, lastUpdate, loading,
                 lastDataId, chartDataRef>>
  /\ UNCHANGED <<analytics, envVars, uiVars>>

Next ==
  \/ \E v \in RawValues : StoreInsert(v)
  \/ ClockTick
  \/ Mount
  \/ toggleLiveUpdates
  \/ \E range \in TimeRanges : onTimeRangeChange(range)
  \/ ManualRefresh
  \/ TimerTick
  \/ \E r \in Outstanding : \E n \in AnswerTimes(r) : fetchTurbidityData_done(r, n)
  \/ \E r \in Outstanding : fetchTurbidityData_error(r)
  \/ \E r \in Outstanding : fetchTurbidityData_catch(r)
  \/ \E r \in Outstanding : \E n \in AnswerTimes(r) : checkForNewData_done(r, n)
  \/ \E r \in Outstanding : checkForNewData_fail(r)
  \/ \E r \in Outstanding : \E n \in AnswerTimes(r) : fetchNewData_done(r, n)
  \/ \E r \in Outstanding : fetchNewData_fail(r)
  \/ SyncRefs

Spec == Init /\ [][Next]_vars

TypeOK ==
  /\ Len(store) <= MaxStore
  /\ InFlightCount <= MaxInFlight
  /\ Len(turbidityData) <= WindowCap

(***************************************************************************)
(* The alert classifier on its own: the inputs latest, average and trend   *)
(* are held in stats, and a step classifies them as lines 249-250 and      *)
(* 273-274 do (Classify) or as src/src/Dashboard.jsx line 177 does.        *)
(***************************************************************************)
\* the variables the function specifications leave as the component is
\* before it mounts
idleVars == <<now, inflight, mounted, error, lastUpdate, isLive, timeRange,
              loading, lastDataId, timerLive>>

Idle ==
  /\ now = 0
  /\ inflight = EmptyBag
  /\ mounted = FALSE
  /\ error = "null"
  /\ lastUpdate = 0
  /\ isLive = FALSE
  /\ timeRange = "today"
  /\ loading = TRUE
  /\ lastDataId = 0
  /\ timerLive = <<>>

Trends == {"rising", "falling", "stable"}

\* values of latest and average around the thresholds of both versions
AlertInputs == {0, 50, 99, 100, 101, 499, 500, 999, 1000, 1499, 1500, 1999,
                2000, 2999, 3000, 4999, 5000}

InitAlert ==
  /\ Idle
  /\ store = <<>>
  /\ turbidityData = <<>>
  /\ chartDataRef = <<>>
  /\ turbidityDataRef = <<>>
  /\ statsRef = [latest |-> 0, average |-> 0, highest |-> 0, trend |-> "stable"]
  /\ stats \in [latest : AlertInputs, average : AlertInputs, highest : {0},
                trend : Trends]
  /\ alertLevel = "normal"
  /\ riskAssessment = "null"
  /\ accumulationRate = 0
  /\ daysToClog = <<>>
  /\ stabilityIndex = 100
  /\ distribution = [normal |-> 0, warning |-> 0, danger |-> 0, critical |-> 0]

\* lines 249-253 (and 273-277): alert, risk, setRiskAssessment, setAlertLevel
Classify ==
  LET alert == determineAlertLevel(stats.latest, Rat(stats.average, 1), stats.trend)
      risk == predictCloggingRisk(stats.latest, Rat(stats.average, 1),
                                  stats.trend, alert)
  IN  /\ alertLevel' = alert
      /\ riskAssessment' = risk
      /\ UNCHANGED <<turbidityData, stats, accumulationRate, daysToClog,
                     stabilityIndex, distribution, store, chartDataRef,
                     refVars, idleVars>>

\* src/src/Dashboard.jsx lines 177 and 187: alert, setAlertLevel
Classify_DashboardJsx ==
  /\ alertLevel' = determineAlertLevel_DashboardJsx(
                     stats.latest, Rat(stats.average, 1), stats.trend)
  /\ UNCHANGED <<turbidityData, stats, riskAssessment, accumulationRate,
                 daysToClog, stabilityIndex, distribution, store,
                 chartDataRef, refVars, idleVars>>

NextAlert == Classify \/ Classify_DashboardJsx

SpecAlert == InitAlert /\ [][NextAlert]_vars

(***************************************************************************)
(* The two compute paths on their own: the store holds a series of rows, a *)
(* full refresh publishes its first k rows and a poll appends the rows     *)
(* above the Window.  The series are shorter than the capacity of the      *)
(* source (1000, 100 in part_003), so no slice drops a reading here; the   *)
(* refs are copied at the end of each step.  The steps of part_001 and of  *)
(* part_003 are kept apart: a poll of one version appends only to a Window *)
(* that version has published.                                             *)
(***************************************************************************)
\* length of the longest series
MaxTrendLen == 11
\* length of the longest series over all of TrendRaw
MaxShortLen == 3

\* raw values: 2990 and 2980 are published as 10 and 20, 3000 as 0 and 3050
\* as -50 by the inversion of part_001
LongRaw == {2990, 2980}
TrendRaw == {3050, 3000, 2990, 2980, 2000, 1000}

RowsOf(raw) ==
  [i \in 1..Len(raw) |-> [id |-> i, value |-> raw[i], created_at |-> i]]

\* a series of i rows at one level followed by j rows at another
StepSeries(a, b, i, j) == [n \in 1..(i + j) |-> IF n <= i THEN a ELSE b]

\* the step series over LongRaw up to MaxTrendLen rows and every series over
\* TrendRaw up to MaxShortLen rows
TrendStores ==
  {RowsOf(raw) : raw \in
     {StepSeries(a, b, ij[1], ij[2]) :
        a \in LongRaw, b \in LongRaw,
        ij \in {x \in (0..MaxTrendLen) \X (0..MaxTrendLen) :
                  x[1] + x[2] <= MaxTrendLen}}
       \cup (UNION {[1..n -> TrendRaw] : n \in 0..MaxShortLen})}

InitTrend ==
  /\ Idle
  /\ store \in TrendStores
  /\ turbidityData = <<>>
  /\ chartDataRef = <<>>
  /\ turbidityDataRef = <<>>
  /\ stats = [latest |-> 0, average |-> 0, highest |-> 0, trend |-> "stable"]
  /\ statsRef = stats
  /\ alertLevel = "normal"
  /\ riskAssessment = "null"
  /\ accumulationRate = 0
  /\ daysToClog = <<>>
  /\ stabilityIndex = 100
  /\ distribution = [normal |-> 0, warning |-> 0, danger |-> 0, critical |-> 0]

\* the rows of the store above the Window, ascending
RowsAboveWindow ==
  FetchSince(store, IF turbidityData = <<>> THEN 0
                    ELSE turbidityData[Len(turbidityData)].id)

\* the Window holds readings as part_001 publishes them (value inverted)
PublishedInverted ==
  \A i \in 1..Len(turbidityData) :
    turbidityData[i].value = invertIfNeeded(turbidityData[i].originalValue)

\* the Window holds readings as part_003 publishes them (value as fetched)
PublishedRaw ==
  \A i \in 1..Len(turbidityData) :
    turbidityData[i].value = turbidityData[i].originalValue

\* part_001 lines 230-263 for the k most recent rows (descending) of a store
\* of k rows
FullPath(k) ==
  LET data == Reverse(SubSeq(store, 1, k))
      formatted == Reverse(FormatRows(data))
      values == ValuesOf(formatted)
  IN  /\ computeAccumulationMetrics(formatted)
      /\ computeDistribution(values)
      /\ turbidityData' = formatted
      /\ chartDataRef' = formatted
      /\ stats' = StatsOf(values)
      /\ alertLevel' = AlertOf(values)
      /\ riskAssessment' = RiskOf(values)
      /\ statsRef' = stats'
      /\ turbidityDataRef' = turbidityData'
      /\ UNCHANGED <<store, idleVars>>

\* part_001 lines 205-223 and 266-282 for the rows above the Window
IncrementalPath ==
  LET data == RowsAboveWindow
      updatedData == turbidityDataRef \o FormatRows(data)
  IN  /\ Len(data) > 0
      /\ PublishedInverted
      /\ turbidityData' = updatedData
      /\ chartDataRef' = updatedData
      /\ updateStatsIncrementally(updatedData)
      /\ statsRef' = stats'
      /\ turbidityDataRef' = turbidityData'
      /\ UNCHANGED <<store, idleVars>>

\* the reading part_003 builds from a row (lines 167-173, 199-205): the
\* value is published as it is
FormatRows_part003(data) ==
  [i \in 1..Len(data) |->
     [id |-> data[i].id, value |-> data[i].value,
      fullDate |-> data[i].created_at, originalValue |-> data[i].value]]

\* part_003 lines 198-226: the statistics are computed over the values in
\* the order of the fetched rows (descending)
FullPath_part003(k) ==
  LET data == Reverse(SubSeq(store, 1, k))
      formattedData == Reverse(FormatRows_part003(data))
      values == [i \in 1..Len(data) |-> data[i].value]
      latest == values[1]
      average == Rat(SumSeq(values), Len(values))
      trend == calculateTrend(SubSeq(values, 1, Min(TrendLookback, Len(values))))
      alert == determineAlertLevel(latest, average, trend)
  IN  /\ riskAssessment' = predictCloggingRisk(latest, average, trend, alert)
      /\ turbidityData' = formattedData
      /\ chartDataRef' = formattedData
      /\ stats' = [latest |-> latest, average |-> MathRound(average),
                   highest |-> MaxSeq(values), trend |-> trend]
      /\ alertLevel' = alert
      /\ statsRef' = stats'
      /\ turbidityDataRef' = turbidityData'
      /\ UNCHANGED <<accumulationRate, daysToClog, stabilityIndex,
                     distribution, store, idleVars>>

\* part_003 lines 166-188 and 229-252 for the rows above the Window
IncrementalPath_part003 ==
  LET data == RowsAboveWindow
      updatedData == turbidityDataRef \o FormatRows_part003(data)
      values == ValuesOf(updatedData)
      latest == values[Len(values)]
      newAverage == Rat(statsRef.average * Len(turbidityDataRef) + latest,
                        Len(turbidityDataRef) + 1)
      trend == calculateTrend(SliceLast(values, TrendLookback))
      alert == determineAlertLevel(latest, newAverage, trend)
  IN  /\ Len(data) > 0
      /\ PublishedRaw
      /\ turbidityData' = updatedData
      /\ chartDataRef' = updatedData
      /\ riskAssessment' = predictCloggingRisk(latest, newAverage, trend, alert)
      /\ stats' = [latest |-> latest, average |-> MathRound(newAverage),
                   highest |-> Max(statsRef.highest, latest), trend |-> trend]
      /\ alertLevel' = alert
      /\ statsRef' = stats'
      /\ turbidityDataRef' = turbidityData'
      /\ UNCHANGED <<accumulationRate, daysToClog, stabilityIndex,
                     distribution, store, idleVars>>

NextTrend ==
  \/ \E k \in 1..Len(store) : FullPath(k)
  \/ IncrementalPath
  \/ \E k \in 1..Len(store) : FullPath_part003(k)
  \/ IncrementalPath_part003

SpecTrend == InitTrend /\ [][NextTrend]_vars

(***************************************************************************)
(* The accumulation analyzer on its own: the Window holds a series of      *)
(* readings and a step computes the metrics from it, as both compute paths *)
(* do (lines 253 and 276).                                                 *)
(***************************************************************************)
\* length of the longest series of readings one hour apart
MaxAccumLen == 8
\* length of the longest series over all of AccumValues and AccumGaps
MaxAccumShort == 3

\* published values around the example of the spec and the critical threshold
AccumValues == {100, 101, 200, 1499, 1600}
\* hours between a reading and the one before it
AccumGaps == {-1, 0, 1, 3, 1000}

\* the Window of readings with these values, the i-th one gaps[i] hours
\* after the one before it (the first one at hour 0)
RECURSIVE TimeAt(_, _)
TimeAt(gaps, i) == IF i <= 1 THEN 0 ELSE TimeAt(gaps, i - 1) + gaps[i]

ReadingsOf(values, gaps) ==
  [i \in 1..Len(values) |->
     [id |-> i, value |-> values[i], fullDate |-> TimeAt(gaps, i),
      originalValue |-> SENSOR_MAX - values[i]]]

AccumWindows ==
  {ReadingsOf(StepSeries(a, b, ij[1], ij[2]), [n \in 1..(ij[1] + ij[2]) |-> 1]) :
     a \in {100, 200}, b \in {100, 200},
     ij \in {x \in (0..MaxAccumLen) \X (0..MaxAccumLen) :
               x[1] + x[2] <= MaxAccumLen}}
    \cup
  {ReadingsOf([i \in 1..Len(vg) |-> vg[i][1]], [i \in 1..Len(vg) |-> vg[i][2]]) :
     vg \in UNION {[1..n -> AccumValues \X AccumGaps] : n \in 0..MaxAccumShort}}

InitAccum ==
  /\ Idle
  /\ store = <<>>
  /\ turbidityData \in AccumWindows
  /\ chartDataRef = <<>>
  /\ turbidityDataRef = <<>>
  /\ stats = [latest |-> 0, average |-> 0, highest |-> 0, trend |-> "stable"]
  /\ statsRef = stats
  /\ alertLevel = "normal"
  /\ riskAssessment = "null"
  /\ accumulationRate = 0
  /\ daysToClog = <<>>
  /\ stabilityIndex = 100
  /\ distribution = [normal |-> 0, warning |-> 0, danger |-> 0, critical |-> 0]

\* lines 253 and 276: computeAccumulationMetrics over the readings that
\* make up the Window
ComputeAccumulation ==
  /\ computeAccumulationMetrics(turbidityData)
  /\ UNCHANGED <<turbidityData, stats, alertLevel, riskAssessment,
                 distribution, store, chartDataRef, refVars, idleVars>>

NextAccum == ComputeAccumulation

SpecAccum == InitAccum /\ [][NextAccum]_vars

(***************************************************************************)
(* The distribution binner on its own: the Window holds a series of        *)
(* readings and a step bins their values, as both compute paths do (lines  *)
(* 256 and 277).                                                           *)
(***************************************************************************)
\* length of the longest series over all of DistValues
MaxDistLen == 3

\* published values on and around the thresholds; -50 is what the inversion
\* publishes for a raw value of 3050
DistValues == {-50, 0, 99, 100, 499, 500, 999, 1000, 1600}

\* the values of the example of the spec
DistExample == <<50, 150, 600, 1200, 1600>>

DistWindows ==
  {ReadingsOf(values, [i \in 1..Len(values) |-> 1]) :
     values \in UNION {[1..n -> DistValues] : n \in 0..MaxDistLen}
                  \cup {DistExample}}

InitDist ==
  /\ Idle
  /\ store = <<>>
  /\ turbidityData \in DistWindows
  /\ chartDataRef = <<>>
  /\ turbidityDataRef = <<>>
  /\ stats = [latest |-> 0, average |-> 0, highest |-> 0, trend |-> "stable"]
  /\ statsRef = stats
  /\ alertLevel = "normal"
  /\ riskAssessment = "null"
  /\ accumulationRate = 0
  /\ daysToClog = <<>>
  /\ stabilityIndex = 100
  /\ distribution = [normal |-> 0, warning |-> 0, danger |-> 0, critical |-> 0]

\* lines 256 and 277: computeDistribution over the values of the readings
\* that make up the Window
ComputeDistribution ==
  /\ computeDistribution(ValuesOf(turbidityData))
  /\ UNCHANGED <<turbidityData, stats, alertLevel, riskAssessment,
                 accumulationRate, daysToClog, stabilityIndex, store,
                 chartDataRef, refVars, idleVars>>

NextDist == ComputeDistribution

SpecDist == InitDist /\ [][NextDist]_vars

(***************************************************************************)
(* FullRefresh run to completion against a store that does not change:     *)
(* every refresh is sent and answered in one step, time passes between     *)
(* the refreshes.                                                          *)
(***************************************************************************)
\* the hours at which a row may have been created or a refresh may run
RefreshHours == {h * TickHours : h \in 0..MaxTicks}

\* stores of up to MaxStore rows, created at strictly increasing hours
RefreshStores ==
  {[i \in 1..Len(rows) |->
      [id |-> i, value |-> rows[i][1], created_at |-> rows[i][2]]] :
     rows \in {x \in UNION {[1..n -> RawValues \X RefreshHours] : n \in 0..MaxStore} :
                 \A i \in 1..(Len(x) - 1) : x[i][2] < x[i + 1][2]}}

InitRefresh ==
  /\ store \in RefreshStores
  /\ now \in RefreshHours
  /\ \A i \in 1..Len(store) : store[i].created_at <= now
  /\ inflight = EmptyBag
  /\ mounted = FALSE
  /\ turbidityData = <<>>
  /\ stats = [latest |-> 0, average |-> 0, highest |-> 0, trend |-> "stable"]
  /\ error = "null"
  /\ alertLevel = "normal"
  /\ lastUpdate = 0
  /\ isLive = FALSE
  /\ riskAssessment = "null"
  /\ accumulationRate = 0
  /\ daysToClog = <<>>
  /\ stabilityIndex = 100
  /\ distribution = [normal |-> 0, warning |-> 0, danger |-> 0, critical |-> 0]
  /\ timeRange = "today"
  /\ loading = TRUE
  /\ lastDataId = 0
  /\ chartDataRef = <<>>
  /\ statsRef = stats
  /\ turbidityDataRef = <<>>
  /\ timerLive = <<>>

\* the rows a FullRefresh with this range selects now
SelectedNow(range) == FetchRange(store, buildDateFilter(range, now), WindowCap)

\* lines 117-156 from call to return, the store answering at once; the
\* first refresh is the one of the mount effect (range is the initial
\* timeRange), a later one with another range is onTimeRangeChange and one
\* with the same range the Manual Refresh button
FullRefresh(range) ==
  /\ ~mounted => range = timeRange
  /\ mounted' = TRUE
  /\ timeRange' = range
  /\ timerLive' = IF mounted /\ range = timeRange THEN timerLive ELSE <<isLive>>
  /\ IF Len(SelectedNow(range)) > 0
     THEN fetchTurbidityData_rows(SelectedNow(range))
     ELSE fetchTurbidityData_empty
  /\ loading' = FALSE
  /\ UNCHANGED <<envVars, inflight, isLive, refVars>>

NextRefresh ==
  \/ \E range \in TimeRanges : FullRefresh(range)
  \/ ClockTick
  \/ SyncRefs

SpecRefresh == InitRefresh /\ [][NextRefresh]_vars

(***************************************************************************)
(* The component under a fair timer and a store that answers every         *)
(* request.                                                                *)
(***************************************************************************)
\* some outstanding request is answered, with rows, an error or an exception
Completion ==
  \E r \in Outstanding :
    \/ \E n \in AnswerTimes(r) : fetchTurbidityData_done(r, n)
    \/ fetchTurbidityData_error(r)
    \/ fetchTurbidityData_catch(r)
    \/ \E n \in AnswerTimes(r) : checkForNewData_done(r, n)
    \/ checkForNewData_fail(r)
    \/ \E n \in AnswerTimes(r) : fetchNewData_done(r, n)
    \/ fetchNewData_fail(r)

\* the component at the last hour of the clock, in front of a store whose
\* rows are older than the day but for the last, which may be of this hour:
\* a refresh of "today" finds no row or the last one, one of "week" finds
\* them all, a poll fetches the rows above the cursor
LiveRows == 2

LiveStores == {s \in RefreshStores : Len(s) = LiveRows}

InitLive ==
  /\ store \in LiveStores
  /\ now = MaxTicks * TickHours
  /\ inflight = EmptyBag
  /\ mounted = FALSE
  /\ turbidityData = <<>>
  /\ stats = [latest |-> 0, average |-> 0, highest |-> 0, trend |-> "stable"]
  /\ error = "null"
  /\ alertLevel = "normal"
  /\ lastUpdate = 0
  /\ isLive = FALSE
  /\ riskAssessment = "null"
  /\ accumulationRate = 0
  /\ daysToClog = <<>>
  /\ stabilityIndex = 100
  /\ distribution = [normal |-> 0, warning |-> 0, danger |-> 0, critical |-> 0]
  /\ timeRange = "today"
  /\ loading = TRUE
  /\ lastDataId = 0
  /\ chartDataRef = <<>>
  /\ statsRef = stats
  /\ turbidityDataRef = <<>>
  /\ timerLive = <<>>

\* the steps of the component; the store and the clock stand still
NextLive ==
  \/ Mount
  \/ toggleLiveUpdates
  \/ \E range \in TimeRanges : onTimeRangeChange(range)
  \/ ManualRefresh
  \/ TimerTick
  \/ \E r \in Outstanding : \E n \in AnswerTimes(r) : fetchTurbidityData_done(r, n)
  \/ \E r \in Outstanding : fetchTurbidityData_error(r)
  \/ \E r \in Outstanding : fetchTurbidityData_catch(r)
  \/ \E r \in Outstanding : \E n \in AnswerTimes(r) : checkForNewData_done(r, n)
  \/ \E r \in Outstanding : checkForNewData_fail(r)
  \/ \E r \in Outstanding : \E n \in AnswerTimes(r) : fetchNewData_done(r, n)
  \/ \E r \in Outstanding : fetchNewData_fail(r)
  \/ SyncRefs

\* the store answers every request: weak fairness of Completion, written
\* out (a Completion step is possible exactly when a request is
\* outstanding, since every request can fail)
Answering == ([]<>(inflight = EmptyBag)) \/ []<><<Completion>>_vars

\* the interval of line 161 keeps firing (strongly fair: the limit on
\* outstanding requests, which is of the model only, may disable the tick
\* again and again) and the store answers every request
SpecLive ==
  InitLive /\ [][NextLive]_vars /\ SF_vars(TimerTick) /\ Answering

(***************************************************************************)
(* The two ingestion paths in front of a store with malformed rows: a      *)
(* value that is no number, a created_at that does not follow the order of *)
(* the ids.  Every refresh and every poll runs to completion.              *)
(***************************************************************************)
\* rows of the store
MaxMalformed == 3

\* the hours of one day at which a row may have been created
MalformedHours == 1..MaxMalformed

\* stores of up to MaxMalformed rows with ids 1, 2, ..., any value, numeric
\* or not, and distinct hours of creation in any order
MalformedStores ==
  {[i \in 1..Len(rows) |->
      [id |-> i, value |-> rows[i][1], created_at |-> rows[i][2]]] :
     rows \in {x \in UNION {[1..n -> (RawValues \cup {NaN}) \X MalformedHours] :
                             n \in 0..MaxMalformed} :
                 \A i, j \in 1..Len(x) : i # j => x[i][2] # x[j][2]}}

\* the rows are older than the day: a refresh of "today" finds none
InitMalformed ==
  /\ store \in MalformedStores
  /\ now = MaxTicks * TickHours
  /\ inflight = EmptyBag
  /\ mounted = FALSE
  /\ turbidityData = <<>>
  /\ stats = [latest |-> 0, average |-> 0, highest |-> 0, trend |-> "stable"]
  /\ error = "null"
  /\ alertLevel = "normal"
  /\ lastUpdate = 0
  /\ isLive = FALSE
  /\ riskAssessment = "null"
  /\ accumulationRate = 0
  /\ daysToClog = <<>>
  /\ stabilityIndex = 100
  /\ distribution = [normal |-> 0, warning |-> 0, danger |-> 0, critical |-> 0]
  /\ timeRange = "today"
  /\ loading = TRUE
  /\ lastDataId = 0
  /\ chartDataRef = <<>>
  /\ statsRef = stats
  /\ turbidityDataRef = <<>>
  /\ timerLive = <<>>

\* lines 169-227 from the tick to the return of fetchNewData, the store
\* answering at once: the probe reports an id above the cursor and the rows
\* above the cursor are applied
IncrementalPoll ==
  LET latest == FetchLatestId(store)
      data == FetchSince(store, lastDataId)
  IN  /\ mounted
      /\ Len(latest) > 0
      /\ HasNewData(latest[1], lastDataId)
      /\ fetchNewData_rows(data)
      /\ UNCHANGED <<error, loading, inflight, envVars, uiVars, refVars>>

NextMalformed ==
  \/ \E range \in TimeRanges : FullRefresh(range)
  \/ IncrementalPoll
  \/ SyncRefs

SpecMalformed == InitMalformed /\ [][NextMalformed]_vars

(***************************************************************************)
(* Vocabulary of the properties                                            *)
(***************************************************************************)
Ids(window) == [i \in 1..Len(window) |-> window[i].id]

StrictlyAscending(ids) == \A i \in 1..(Len(ids) - 1) : ids[i] < ids[i + 1]

\* the greatest id among fetched rows
MaxId(data) == CHOOSE m \in {data[i].id : i \in 1..Len(data)} :
                 \A i \in 1..Len(data) : data[i].id <= m

\* the rows a FullRefresh request receives when the store answers with n rows
FullRows(r, n) == FetchRange(RowsAt(n), r.arg, WindowCap)

\* the rows a FetchSince request receives when the store answers with n rows
SinceRows(r, n) == FetchSince(RowsAt(n), r.arg)

\* a FullRefresh fetch or a poll (probe or FetchSince) is outstanding
FetchesInFlight == InFlightCount

FailureMessages ==
  {"Failed to fetch data from database", "An unexpected error occurred"}

NoDataMessage == "No data found in turbidity_readings table for selected range"

(***************************************************************************)
(* C1 - C5                                                                 *)
(***************************************************************************)
\* C1: the Window never holds more than WindowCap readings, and a poll
\* result whose append to the Window would exceed WindowCap leaves the
\* Window followed by the fetched readings with exactly its oldest readings
\* dropped: the last WindowCap readings, in their order.
C1_BoundedEvictingOldest ==
  [][/\ Len(turbidityData') <= WindowCap
     /\ \A r \in Outstanding : \A n \in AnswerTimes(r) :
          (/\ fetchNewData_done(r, n)
           /\ Len(turbidityData) + Len(SinceRows(r, n)) > WindowCap)
          => turbidityData' =
               SliceLast(turbidityData \o FormatRows(SinceRows(r, n)), WindowCap)
    ]_vars

\* C2: in every reachable state the Window is strictly ascending by id.
C2_WindowStrictlyAscending == StrictlyAscending(Ids(turbidityData))

\* C3: no step decreases the cursor.
C3_CursorNeverDecreases == [][lastDataId' >= lastDataId]_vars

\* C4: at most one FullRefresh or IncrementalPoll fetch is in flight.
C4_SingleFetchInFlight == FetchesInFlight <= 1

\* C5: a stale completion is discarded: when the greatest fetched id is
\* below the cursor (a fetch answered before a newer one was applied),
\* Window, cursor and analytics stay as they are.  The claim asks this of
\* every completion whose greatest fetched id is not above the cursor.
C5_StaleCompletionDiscarded ==
  [][\A r \in Outstanding : \A n \in AnswerTimes(r) :
       /\ (/\ fetchTurbidityData_done(r, n)
           /\ Len(FullRows(r, n)) > 0
           /\ MaxId(FullRows(r, n)) < lastDataId)
          => UNCHANGED <<turbidityData, lastDataId, analytics>>
       /\ (/\ fetchNewData_done(r, n)
           /\ Len(SinceRows(r, n)) > 0
           /\ MaxId(SinceRows(r, n)) < lastDataId)
          => UNCHANGED <<turbidityData, lastDataId, analytics>>
    ]_vars

(***************************************************************************)
(* C6 - C10                                                                *)
(***************************************************************************)
\* the id the probe reports when the store answers with n rows (0: no row)
ProbedId(n) == IF n = 0 THEN 0 ELSE store[n].id

\* C6: a probe that reports a latest id not above the cursor issues no
\* FetchSince (the probe just leaves the outstanding requests) and leaves
\* Window, cursor, analytics, lastUpdate, error and loading as they are.
C6_ProbeWithoutNewsIsNoOp ==
  [][\A r \in Outstanding : \A n \in AnswerTimes(r) :
       (checkForNewData_done(r, n) /\ ProbedId(n) <= lastDataId)
       => /\ inflight' = Receive(inflight, r)
          /\ UNCHANGED <<turbidityData, lastDataId, analytics, lastUpdate,
                         error, loading, chartDataRef>>
    ]_vars

\* a probe is outstanding that can only report an id the cursor has reached
C6_Witness ==
  /\ lastDataId > 0
  /\ turbidityData # <<>>
  /\ \E r \in Outstanding :
       r.kind = "probe" /\ \A n \in AnswerTimes(r) : ProbedId(n) <= lastDataId

\* C7: a FullRefresh whose fetch fails (error result or exception) sets an
\* error status and leaves Window, cursor and analytics as they are.
C7_FailedRefreshKeepsState ==
  [][\A r \in Outstanding :
       (fetchTurbidityData_error(r) \/ fetchTurbidityData_catch(r))
       => /\ error' \in FailureMessages
          /\ UNCHANGED <<turbidityData, lastDataId, analytics>>
    ]_vars

\* a fetch has failed while the Window held readings
C7_Witness ==
  /\ error \in FailureMessages
  /\ turbidityData # <<>>
  /\ lastDataId > 0

C9_EmptyRefreshKeepsCursor ==
  [][\A r \in Outstanding : \A n \in AnswerTimes(r) :
       (fetchTurbidityData_done(r, n) /\ Len(FullRows(r, n)) = 0)
       => /\ lastDataId' = lastDataId
          /\ error' = NoDataMessage
          /\ loading' = FALSE
          /\ UNCHANGED <<mounted, timerLive, isLive>>
    ]_vars

\* a FullRefresh has fetched no row after the cursor had advanced
C9_Witness ==
  /\ error = NoDataMessage
  /\ ~loading
  /\ lastDataId > 0

C11_PollAppendsToWindow ==
  [][\A r \in Outstanding : \A n \in AnswerTimes(r) :
       (/\ fetchNewData_done(r, n)
        /\ Len(SinceRows(r, n)) > 0
        /\ \A i \in 1..Len(turbidityData) :
             turbidityData[i].id < SinceRows(r, n)[1].id)
       => turbidityData' =
            SliceLast(turbidityData \o FormatRows(SinceRows(r, n)), WindowCap)
    ]_vars

\* C12: a poll batch that contains an id not above the greatest id of the
\* (non-empty) Window is rejected as a whole: Window, cursor and analytics
\* keep their values.
C12_OverlappingBatchRejected ==
  [][\A r \in Outstanding : \A n \in AnswerTimes(r) :
       (/\ fetchNewData_done(r, n)
        /\ turbidityData # <<>>
        /\ \E i \in 1..Len(SinceRows(r, n)) :
             SinceRows(r, n)[i].id <= MaxId(turbidityData))
       => UNCHANGED <<turbidityData, lastDataId, analytics>>
    ]_vars

(***************************************************************************)
(* C13 - C15: the alert classifier (specification SpecAlert)               *)
(***************************************************************************)
Levels == <<"normal", "warning", "danger", "critical">>

\* faulty variant of Thresholds (sensitivity of C31): the warning and the
\* danger bound have changed places
Thresholds_unordered ==
  [normal |-> ThNormal, warning |-> ThDanger, danger |-> ThWarning,
   critical |-> ThCritical]

Thresholds ==
  [normal |-> ThNormal, warning |-> ThWarning, danger |-> ThDanger,
   critical |-> ThCritical]

Thresholds_DashboardJsx ==
  [normal |-> JsxNormal, warning |-> JsxWarning, danger |-> JsxDanger,
   critical |-> JsxCritical]

\* the number of the first rule of the table of C13 that matches
FirstRule(th, latest, average) ==
  CHOOSE k \in 1..5 :
    LET matches(j) ==
          \/ j = 1 /\ (latest >= th.critical \/ average >= th.critical)
          \/ j = 2 /\ (latest >= th.danger \/ average >= th.danger)
          \/ j = 3 /\ (latest >= th.warning \/ average >= th.warning)
          \/ j = 4 /\ latest >= th.normal
          \/ j = 5
    IN  matches(k) /\ \A j \in 1..(k - 1) : ~matches(j)

\* the level the table of C13 gives
ClaimedLevel(th, latest, average, trend) ==
  LET k == FirstRule(th, latest, average)
  IN  IF k = 1 THEN "critical"
      ELSE IF k = 2 THEN (IF trend = "rising" THEN "critical" ELSE "danger")
      ELSE IF k = 3 THEN (IF trend = "rising" THEN "danger" ELSE "warning")
      ELSE IF k = 4 THEN (IF trend = "rising" THEN "warning" ELSE "normal")
      ELSE "normal"

\* C13: for every latest, average and trend the alert level is the first
\* match of the five rules, the fourth of which consults latest only; in
\* the current dashboard and in src/src/Dashboard.jsx, each with its
\* thresholds.
C13_AlertIsFirstMatch ==
  [][/\ Classify
        => alertLevel' = ClaimedLevel(Thresholds, stats.latest, stats.average,
                                      stats.trend)
     /\ Classify_DashboardJsx
        => alertLevel' = ClaimedLevel(Thresholds_DashboardJsx, stats.latest,
                                      stats.average, stats.trend)
    ]_vars

\* one level above, capped at critical
Escalated(level) ==
  IF level = "normal" THEN "warning"
  ELSE IF level = "warning" THEN "danger"
  ELSE "critical"

\* C14 as stated: for every latest and average, the level with a rising
\* trend is one level above the level with a non-rising trend (critical
\* stays critical).
C14_RisingEscalatesAlways ==
  [][(Classify /\ stats.trend # "rising")
     => determineAlertLevel(stats.latest, Rat(stats.average, 1), "rising")
          = Escalated(alertLevel')
    ]_vars

\* C14 amended: for every latest and average with latest >= normal or
\* average >= warning, the level with a rising trend is one level above the
\* level with a non-rising trend (critical stays critical); in both
\* versions of determineAlertLevel.
C14_RisingEscalatesAboveNormal ==
  [][/\ (/\ Classify
         /\ stats.trend # "rising"
         /\ (stats.latest >= ThNormal \/ stats.average >= ThWarning))
        => determineAlertLevel(stats.latest, Rat(stats.average, 1), "rising")
             = Escalated(alertLevel')
     /\ (/\ Classify_DashboardJsx
         /\ stats.trend # "rising"
         /\ (stats.latest >= JsxNormal \/ stats.average >= JsxWarning))
        => determineAlertLevel_DashboardJsx(
             stats.latest, Rat(stats.average, 1), "rising")
             = Escalated(alertLevel')
    ]_vars

\* a falling reading between warning and danger has been classified
C14_Witness ==
  /\ riskAssessment = "MODERATE"
  /\ alertLevel = "warning"
  /\ stats.trend = "falling"
  /\ stats.latest >= ThWarning

\* the entry of the risk table for an alert level
RiskLookup(level) ==
  CASE level = "critical" -> "EXTREME"
    [] level = "danger" -> "HIGH"
    [] level = "warning" -> "MODERATE"
    [] level = "normal" -> "LOW"

\* C15: the risk assessment published with an alert level is the entry of
\* that level, whatever latest, average and trend were.
C15_RiskFollowsAlert ==
  [][Classify => riskAssessment' = RiskLookup(alertLevel')]_vars

\* a level raised by the average alone, above what latest would select
C15_Witness ==
  /\ riskAssessment = "HIGH"
  /\ alertLevel = "danger"
  /\ stats.latest < ThNormal
  /\ stats.average >= ThDanger

(***************************************************************************)
(* C16 - C18: the trend (specification SpecTrend)                          *)
(***************************************************************************)
\* ClassifyTrend as C16 states it: the first half has ceil(n/2) values
ClaimedTrend(values) ==
  IF Len(values) < 2 THEN "stable"
  ELSE LET n == Len(values)
           h == (n + 1) \div 2
           s1 == SumSeq(SubSeq(values, 1, h))
           s2 == SumSeq(SubSeq(values, h + 1, n))
       IN  \* mean(second) > 1.1 * mean(first), mean(second) < 0.9 * mean(first)
           IF 10 * s2 * h > 11 * s1 * (n - h) THEN "rising"
           ELSE IF 10 * s2 * h < 9 * s1 * (n - h) THEN "falling"
           ELSE "stable"

\* the values calculateTrend receives on the ascending paths, read from the
\* Window a step publishes
RecentAscending(window) == SliceLast(ValuesOf(window), TrendLookback)

\* the values calculateTrend receives on the full path of part_003
RecentDescending(window) ==
  LET desc == Reverse(ValuesOf(window))
  IN  SubSeq(desc, 1, Min(TrendLookback, Len(desc)))

\* C16: calculateTrend returns what ClassifyTrend, with a first half of
\* ceil(n/2) values, returns on the values it is given, for every n.
C16_TrendSplitsAtCeiling ==
  [][/\ \A k \in 1..Len(store) :
          FullPath(k)
          => stats'.trend = ClaimedTrend(RecentAscending(turbidityData'))
     /\ IncrementalPath
        => stats'.trend = ClaimedTrend(RecentAscending(turbidityData'))
     /\ \A k \in 1..Len(store) :
          FullPath_part003(k)
          => stats'.trend = ClaimedTrend(RecentDescending(turbidityData'))
     /\ IncrementalPath_part003
        => stats'.trend = ClaimedTrend(RecentAscending(turbidityData'))
    ]_vars

\* C17: over values that are all equal (zero and negative ones included)
\* the trend is stable, and over 10,10,10,10,20,20,20,20 it is rising.
C17_ConstantIsStable ==
  [][\A k \in 1..Len(store) :
       (FullPath(k) \/ IncrementalPath)
       => LET v == RecentAscending(turbidityData')
          IN  /\ (\A i \in 1..Len(v) : v[i] = v[1]) => stats'.trend = "stable"
              /\ v = <<10, 10, 10, 10, 20, 20, 20, 20>> => stats'.trend = "rising"
    ]_vars

\* C18: on the full path and on the incremental path the published trend
\* is calculateTrend of the last min(10, size) values of the published
\* Window in ascending order.
C18_TrendOverRecentAscending ==
  [][/\ \A k \in 1..Len(store) :
          (FullPath(k) \/ FullPath_part003(k))
          => stats'.trend = calculateTrend(RecentAscending(turbidityData'))
     /\ (IncrementalPath \/ IncrementalPath_part003)
        => stats'.trend = calculateTrend(RecentAscending(turbidityData'))
    ]_vars


(***************************************************************************)
(* The accumulation rate and the projected time to the critical threshold. *)
(***************************************************************************)
\* the pairs of consecutive readings the rate is taken over: the last
\* min(SlopePairs, size - 1) ones, named by the index of their later
\* reading, without those whose time difference is not positive
UsablePairs(window) ==
  {i \in 2..Len(window) :
     /\ i > Len(window) - SlopePairs
     /\ window[i].fullDate - window[i - 1].fullDate > 0}

\* value change per hour over the pair ending at reading i
PairRate(window, i) ==
  Rat(window[i].value - window[i - 1].value,
      window[i].fullDate - window[i - 1].fullDate)

RECURSIVE SumOfRates(_, _)
SumOfRates(window, pairs) ==
  IF pairs = {} THEN Rat(0, 1)
  ELSE LET i == CHOOSE x \in pairs : TRUE
       IN  RatAdd(PairRate(window, i), SumOfRates(window, pairs \ {i}))

\* the arithmetic mean of the usable pair rates, 0 when there is none
MeanRate(window) ==
  LET pairs == UsablePairs(window)
      sum == SumOfRates(window, pairs)
  IN  IF pairs = {} THEN Rat(0, 1)
      ELSE Rat(sum.num, sum.den * Cardinality(pairs))

\* scaled is the integer nearest to q * scale (either one at a tie)
NearestScaled(scaled, q, scale) ==
  2 * Abs(scale * q.num - scaled * q.den) <= Abs(q.den)

\* C19 as stated: after the accumulation metrics are computed, the
\* published rate is exactly the arithmetic mean of the usable pair rates
\* among the last min(6, size - 1) pairs (0 when there is none)
C19_RateIsMean ==
  [][ComputeAccumulation =>
       LET mean == MeanRate(turbidityData)
       IN  accumulationRate' * mean.den = 100 * mean.num]_vars

\* C19 amended: the published rate is that mean rounded to two decimals
C19_RateIsRoundedMean ==
  [][ComputeAccumulation =>
       NearestScaled(accumulationRate', MeanRate(turbidityData), 100)]_vars

\* C19: a pair with no time difference was skipped and the remaining rate
\* of 100 / 3 per hour was published as 33.33
C19_Witness ==
  /\ accumulationRate = 3333
  /\ Len(turbidityData) = 3
  /\ \E i \in 2..Len(turbidityData) :
       turbidityData[i].fullDate <= turbidityData[i - 1].fullDate

\* the projection of C20, a value in days or nothing: nothing when fewer
\* than two readings or a mean rate <= 0, else 0 once the current value
\* has reached the critical threshold, else the hours left at the mean rate
\* over 24
DaysAsClaimed(window, days, equalTo(_, _)) ==
  LET mean == MeanRate(window)
      current == window[Len(window)].value
  IN  IF Len(window) < 2 \/ mean.num <= 0 THEN days = <<>>
      ELSE /\ Len(days) = 1
           /\ days[1] >= 0
           /\ IF current < ThCritical
              THEN equalTo(days[1],
                           Rat((ThCritical - current) * mean.den, mean.num * 24))
              ELSE days[1] = 0

ExactTenths(tenths, q) == tenths * q.den = 10 * q.num
RoundedTenths(tenths, q) == NearestScaled(tenths, q, 10)

\* C20 as stated: daysToClog is absent exactly when the rate is <= 0 or
\* there are fewer than two readings; otherwise it equals
\* ((critical - current) / rate) / 24 when current < critical and 0 when
\* not, and it is never negative
C20_DaysToClogExact ==
  [][ComputeAccumulation =>
       DaysAsClaimed(turbidityData, daysToClog', ExactTenths)]_vars

\* C20 amended: the rate is the unrounded mean rate and the quotient is
\* rounded to one decimal
C20_DaysToClogRounded ==
  [][ComputeAccumulation =>
       DaysAsClaimed(turbidityData, daysToClog', RoundedTenths)]_vars

\* C20: from (0 h, 100), (1 h, 200) the rate 100 per hour and 0.5 days to
\* the critical threshold of 1500 were published
C20_Witness ==
  /\ Len(turbidityData) = 2
  /\ turbidityData[2].value = 200
  /\ accumulationRate = 10000
  /\ daysToClog = <<5>>


(***************************************************************************)
(* C21: the stability index (specification SpecAccum)                      *)
(***************************************************************************)
\* the stability index C21 gives for a rate: 100 at rate 0, 0 from a rate
\* of the critical threshold per hour on (either sign), and the integer
\* nearest to 100 - |rate| / critical * 100 in between
StabilityAsClaimed(index, rate) ==
  LET magnitude == Rat(Abs(rate.num), rate.den)
      remainder == Rat(100 * ThCritical * magnitude.den - 100 * magnitude.num,
                       ThCritical * magnitude.den)
  IN  IF rate.num = 0 THEN index = 100
      ELSE IF magnitude.num >= ThCritical * magnitude.den THEN index = 0
      ELSE NearestScaled(index, remainder, 1)

CountWithin(values, lo, hi) ==
  Cardinality({i \in 1..Len(values) : lo <= values[i] /\ values[i] < hi})

\* how many of the values are lo or more
CountFrom(values, lo) ==
  Cardinality({i \in 1..Len(values) : lo <= values[i]})

IssuesProbe ==
  \E r \in BagToSet(inflight') :
    r.kind = "probe" /\ CopiesIn(r, inflight') > CopiesIn(r, inflight)

\* C24: no step taken while live is false sends a probe (the FetchSince of
\* a poll is sent by the completion of its probe only), and at most one
\* interval is active however often live is toggled or the range changed.
C24_TimerPollsOnlyWhileLive ==
  [][/\ ~isLive => ~IssuesProbe
     /\ TimerTick => isLive
     /\ Len(timerLive') <= 1
    ]_vars

\* C24: live was disabled while a probe the timer had sent was outstanding
C24_Witness ==
  /\ mounted
  /\ ~isLive
  /\ timerLive = <<FALSE>>
  /\ \E r \in Outstanding : r.kind = "probe"

\* C25: disabling live sends no store request and leaves Window, analytics,
\* update time and cursor as they are; a FetchSince sent before still
\* applies its rows when it completes with live disabled.
C25_PauseOnlyStopsPolls ==
  [][/\ (toggleLiveUpdates /\ isLive)
        => /\ inflight' = inflight
           /\ UNCHANGED <<turbidityData, analytics, lastUpdate, lastDataId>>
     /\ \A r \in Outstanding : \A n \in AnswerTimes(r) :
          (fetchNewData_done(r, n) /\ ~isLive /\ Len(SinceRows(r, n)) > 0)
          => lastDataId' = MaxId(SinceRows(r, n))
    ]_vars

\* C26: a probe or a FetchSince that fails leaves Window, analytics, update
\* time and cursor as they are and leaves an error status set.
C26_FailedPollSetsError ==
  [][\A r \in Outstanding :
       (checkForNewData_fail(r) \/ fetchNewData_fail(r))
       => /\ UNCHANGED <<turbidityData, analytics, lastUpdate, lastDataId>>
          /\ error' # "null"
    ]_vars

(***************************************************************************)
(* C29 - C30: the Window and the cursor (specification Spec)               *)
(***************************************************************************)
\* C29: every reading of the Window carries the value of its row of the
\* store as originalValue and SENSOR_MAX minus that value as value.
C29_InvertedExactlyOnce ==
  \A i \in 1..Len(turbidityData) :
    /\ turbidityData[i].id \in 1..Len(store)
    /\ turbidityData[i].originalValue = store[turbidityData[i].id].value
    /\ turbidityData[i].value = SENSOR_MAX - turbidityData[i].originalValue

\* C29: the Window holds the readings 2 and 3, the first one evicted
C29_Witness ==
  /\ Len(turbidityData) = WindowCap
  /\ turbidityData[1].id = 2
  /\ turbidityData[2].id = 3
  /\ turbidityData[1].value # turbidityData[2].value

\* C30: whenever the Window is not empty the cursor is the greatest id in
\* the Window.
C30_CursorIsWindowMaximum ==
  turbidityData # <<>> => lastDataId = MaxId(turbidityData)


(***************************************************************************)
(* C23: idempotence of FullRefresh (specification SpecRefresh)             *)
(***************************************************************************)
\* what C23 compares: Window, cursor and the analytics
Published == <<turbidityData, lastDataId, analytics>>

\* C23 as stated: a FullRefresh that follows a completed FullRefresh with
\* the same range selector, the store unchanged, leaves Window, cursor,
\* statistics, accumulation metrics, distribution, alert level and risk
\* assessment as the first left them.
C23_RefreshIdempotent ==
  [][\A range \in TimeRanges :
       (FullRefresh(range) /\ mounted /\ range = timeRange)
       => UNCHANGED Published]_vars

\* the ids a FullRefresh with this range would put into the Window now
SelectedIds(range) ==
  LET data == SelectedNow(range)
  IN  [i \in 1..Len(data) |-> data[Len(data) + 1 - i].id]

\* C23 amended: ... when the second refresh selects the readings the first
\* selected (no reading has left the time range of the selector between
\* the two).
C23_RefreshIdempotentSameRows ==
  [][\A range \in TimeRanges :
       (/\ FullRefresh(range)
        /\ mounted
        /\ range = timeRange
        /\ SelectedIds(range) = Ids(turbidityData))
       => UNCHANGED Published]_vars

\* C23: a refresh of the week has filled the Window at the last hour, and
\* one more refresh of the week would select the same readings
C23_Witness ==
  /\ mounted
  /\ ~loading
  /\ timeRange = "week"
  /\ lastUpdate = MaxTicks * TickHours
  /\ Len(turbidityData) = WindowCap
  /\ SelectedIds(timeRange) = Ids(turbidityData)


(***************************************************************************)
(* C27: failures are not final (specification SpecLive)                    *)
(***************************************************************************)
\* a poll or a refresh fails or finds no row
FailureStep ==
  \E r \in Outstanding :
    \/ fetchTurbidityData_error(r)
    \/ fetchTurbidityData_catch(r)
    \/ checkForNewData_fail(r)
    \/ fetchNewData_fail(r)
    \/ \E n \in AnswerTimes(r) :
         \/ fetchTurbidityData_done(r, n) /\ Len(FullRows(r, n)) = 0
         \/ fetchNewData_done(r, n) /\ Len(SinceRows(r, n)) = 0

\* the timer can send a probe, but for the limit on outstanding requests
PollReady == mounted /\ isLive /\ timerLive = <<TRUE>>

\* C27: a failure or an empty result leaves the timer polling when live is
\* set, leaves the refresh controls usable if they were (a failed or empty
\* FullRefresh puts them back) and leaves room for a new request; and
\* whenever live stays set from some point on, the timer sends probes again
\* and again, whatever fails.
C27_FailuresAreNotFinal ==
  /\ [][FailureStep =>
          /\ isLive' => PollReady'
          /\ ControlsShown => ControlsShown'
          /\ (\E r \in Outstanding : r.kind = "full" /\ r \notin BagToSet(inflight'))
             => ~loading'
          /\ InFlightCount' < MaxInFlight
       ]_vars
  /\ (<>[](mounted /\ isLive)) => []<><<TimerTick>>_vars

\* C27: a failed refresh is on display while live is set and a probe is
\* outstanding
C27_Witness ==
  /\ isLive
  /\ error \in FailureMessages
  /\ ~loading
  /\ \E r \in Outstanding : r.kind = "probe"


(***************************************************************************)
(* C28: malformed readings (specification SpecMalformed)                   *)
(***************************************************************************)
\* C28: every value held in the Window is a number, and every reading of
\* the Window has an id and a timestamp above those of the reading before
\* it: no malformed reading has entered, by a refresh or by a poll.
C28_MalformedNeverEnters ==
  \A i \in 1..Len(turbidityData) :
    /\ IsNumber(turbidityData[i].value)
    /\ i > 1 => /\ turbidityData[i - 1].id < turbidityData[i].id
                /\ turbidityData[i - 1].fullDate < turbidityData[i].fullDate

(***************************************************************************)
(* C31: the threshold configuration (specification SpecAlert)              *)
(***************************************************************************)
StrictlyIncreasing(th) ==
  /\ th.normal < th.warning
  /\ th.warning < th.danger
  /\ th.danger < th.critical

RECURSIVE FoldAverage(_, _, _)
FoldAverage(oldAvg, oldCount, batch) ==
  IF batch = <<>> THEN oldAvg
  ELSE FoldAverage(Rat(oldAvg.num * oldCount + Head(batch) * oldAvg.den,
                       oldAvg.den * (oldCount + 1)),
                   oldCount + 1, Tail(batch))

\* the values of the readings a poll has appended to the Window
AppendedValues ==
  [i \in 1..(Len(turbidityData') - Len(turbidityData)) |->
     turbidityData'[Len(turbidityData) + i].value]

\* C32: a poll that appends k >= 1 readings publishes the average held
\* before it folded with the k values in order (rounded as every published
\* average), as highest the greatest of the highest held before and the k
\* values, and as latest the last appended value; in the current dashboard
\* and in part_003.
C32_StatsFoldedPerReading ==
  [][(IncrementalPath \/ IncrementalPath_part003)
       => /\ stats'.latest = AppendedValues[Len(AppendedValues)]
          /\ stats'.highest = Max(stats.highest, MaxSeq(AppendedValues))
          /\ stats'.average =
               MathRound(FoldAverage(Rat(stats.average, 1), Len(turbidityData),
                                     AppendedValues))
    ]_vars

(***************************************************************************)
(* C33: incremental and full statistics agree (specification SpecTrend)    *)
(***************************************************************************)
\* latest, average and highest as the full-compute path yields them over
\* the values of a Window
FullStatsOver(window) ==
  LET values == [i \in 1..Len(window) |-> window[i].value]
  IN  [latest |-> values[Len(values)],
       average |-> MathRound(Rat(SumSeq(values), Len(values))),
       highest |-> MaxSeq(values)]

\* C33: after any sequence of full refreshes and polls, the statistics a
\* poll publishes are those of the full computation over the resulting
\* Window: latest the last value, average the rounded mean of all values,
\* highest the greatest value; in the current dashboard and in part_003.
C33_IncrementalEqualsFull ==
  [][(IncrementalPath \/ IncrementalPath_part003)
       => [f \in {"latest", "average", "highest"} |-> stats'[f]]
            = FullStatsOver(turbidityData')
    ]_vars

(***************************************************************************)
(* C34: the published snapshot is consistent (specification Spec)          *)
(***************************************************************************)
\* the analytics are those both compute paths derive from the window
DerivedFrom(window) ==
  LET values == ValuesOf(window)
      m == AccumulationOf(window)
  IN  /\ stats = StatsOf(values)
      /\ alertLevel = AlertOf(values)
      /\ riskAssessment = RiskOf(values)
      /\ accumulationRate = m.rate
      /\ daysToClog = m.days
      /\ stabilityIndex = m.stability
      /\ distribution = DistributionOf(values)

\* C34: in every state between two steps of the controller the four counts
\* of the distribution sum to the length of the Window, and statistics,
\* accumulation metrics, alert level and risk assessment are those derived
\* from the Window, once a refresh or a poll has published one; also after
\* a refresh that fetched no row and after a failed fetch.
C34_SnapshotConsistent ==
  /\ distribution.normal + distribution.warning + distribution.danger
       + distribution.critical = Len(turbidityData)
  /\ (turbidityData # <<>> \/ lastUpdate # 0) => DerivedFrom(turbidityData)

(***************************************************************************)
(* C35: refresh commands (specification SpecLive)                          *)
(***************************************************************************)
\* the Manual Refresh button or one of the range buttons is used
RefreshCommand ==
  ManualRefresh \/ \E range \in TimeRanges : onTimeRangeChange(range)

\* a probe of the timer is outstanding
ProbeOutstanding == \E r \in Outstanding : r.kind = "probe"

\* C35: a manual refresh and a change of the time range send a FullRefresh
\* fetch for the range selected after the command (at once, with the render
\* that follows it) and leave an interval that polls when live is set; and
\* while live is set the timer goes on sending probes, whatever commands
\* are given.
C35_CommandsRefresh ==
  /\ [][RefreshCommand =>
          /\ inflight' = Send(inflight,
                              Request("full", buildDateFilter(timeRange', now)))
          /\ isLive' => PollReady'
       ]_vars
  /\ (mounted /\ isLive) ~> (~isLive \/ ProbeOutstanding)

\* C35 witness: with live set the range was changed to "week"; the fetch
\* for the week is outstanding and the interval polls
C35_Witness ==
  /\ PollReady
  /\ timeRange = "week"
  /\ loading
  /\ Request("full", buildDateFilter("week", now)) \in Outstanding
  /\ Request("full", buildDateFilter("today", now)) \notin Outstanding

(***************************************************************************)
(* C36: new readings are ingested (specification SpecLive)                 *)
(***************************************************************************)
\* a step of the component in which the store fails no request: a command,
\* a tick, an answer with rows or without, the copy of the refs (a failed
\* probe and a failed fetch of new rows leave the state an answer without
\* news leaves, and are that step)
Unfailing ==
  \/ Mount
  \/ toggleLiveUpdates
  \/ \E range \in TimeRanges : onTimeRangeChange(range)
  \/ ManualRefresh
  \/ TimerTick
  \/ \E r \in Outstanding : \E n \in AnswerTimes(r) :
        \/ fetchTurbidityData_done(r, n)
        \/ checkForNewData_done(r, n)
        \/ fetchNewData_done(r, n)
  \/ SyncRefs

\* the reading with this id has been merged: the cursor has reached it and
\* the Window holds it (the store of SpecLive holds no more rows than the
\* Window does, so no reading is evicted)
Ingested(id) ==
  /\ lastDataId >= id
  /\ \E i \in 1..Len(turbidityData) : turbidityData[i].id = id

\* C36: if live stays set and the store stops failing, then, under a fair
\* timer and a store that answers, every reading of the store whose id is
\* above the cursor is eventually below or at the cursor and in the Window.
C36_NewReadingsIngested ==
  ((<>[](mounted /\ isLive)) /\ <>[][Unfailing]_vars)
    => \A id \in 1..LiveRows : (lastDataId < id) ~> Ingested(id)

\* a FullRefresh is answered with rows that do not include the reading
SkippedByRefresh(id) ==
  \E r \in Outstanding : \E n \in AnswerTimes(r) :
    /\ fetchTurbidityData_done(r, n)
    /\ \A i \in 1..Len(FullRows(r, n)) : FullRows(r, n)[i].id # id

\* C36, amended: if live stays set and the store stops failing, the cursor
\* eventually reaches every reading of the store whose id is above it; and
\* the step with which the cursor reaches a reading puts the reading into
\* the Window, unless it is a FullRefresh whose range did not select the
\* reading.  (In front of the store of SpecLive, which does not grow, the
\* cursor reaches a reading once.)
C36_NewReadingsIngestedOrSkipped ==
  /\ ((<>[](mounted /\ isLive)) /\ <>[][Unfailing]_vars)
       => \A id \in 1..LiveRows : (lastDataId < id) ~> (lastDataId >= id)
  /\ [][\A id \in 1..LiveRows :
          (lastDataId < id /\ lastDataId' >= id)
            => (Ingested(id)' \/ SkippedByRefresh(id))
       ]_vars

\* C36 witness: after a refresh of "today" that found no row, with live set,
\* a poll has appended both readings of the store
C36_Witness ==
  /\ isLive
  /\ error = NoDataMessage
  /\ \A id \in 1..LiveRows : Ingested(id)

(***************************************************************************)
(* C37: the alert does not understate the latest reading (specification    *)
(* SpecAlert)                                                              *)
(***************************************************************************)
\* the position of a level among normal, warning, danger, critical
LevelRank(level) == CHOOSE i \in 1..Len(Levels) : Levels[i] = level

\* the level the status line of a value names
StatusLevel(v) ==
  CASE getStatus(v) = "Critical Turbidity" -> "critical"
    [] getStatus(v) = "High Turbidity" -> "danger"
    [] getStatus(v) = "Moderate Turbidity" -> "warning"
    [] getStatus(v) = "Clear Water" -> "normal"

\* C37: whatever the average and the trend are, the alert level computed
\* for a snapshot is critical when latest >= critical, danger or critical
\* when latest >= danger, warning or higher when latest >= warning; it is
\* never below the level the status line of the latest reading names.
C37_AlertCoversLatest ==
  [][Classify =>
       /\ stats.latest >= ThCritical => alertLevel' = "critical"
       /\ stats.latest >= ThDanger => alertLevel' \in {"danger", "critical"}
       /\ stats.latest >= ThWarning
            => alertLevel' \in {"warning", "danger", "critical"}
       /\ LevelRank(alertLevel') >= LevelRank(StatusLevel(stats.latest))
    ]_vars

\* C37 witness: a latest reading in the danger tier with a low average and
\* a falling trend has been classified as danger
C37_Witness ==
  /\ stats.latest >= ThDanger
  /\ stats.latest < ThCritical
  /\ stats.average < ThNormal
  /\ stats.trend = "falling"
  /\ alertLevel = "danger"
  /\ riskAssessment = "HIGH"

(***************************************************************************)
(* C38: a FullRefresh ends its loading phase (specification Spec)          *)
(***************************************************************************)
\* a FullRefresh completes: with rows or none, an error result, an exception
RefreshCompletes ==
  \E r \in Outstanding :
    \/ \E n \in AnswerTimes(r) : fetchTurbidityData_done(r, n)
    \/ fetchTurbidityData_error(r)
    \/ fetchTurbidityData_catch(r)

\* a FullRefresh completes with at least one row
RefreshCompletesWithRows ==
  \E r \in Outstanding : \E n \in AnswerTimes(r) :
    fetchTurbidityData_done(r, n) /\ Len(FullRows(r, n)) > 0

\* C38: whatever the outcome of its fetch, a FullRefresh that completes
\* leaves the loading flag false, and one that fetched at least one row
\* leaves the error status null.
C38_RefreshEndsLoading ==
  [][/\ RefreshCompletes => ~loading'
     /\ RefreshCompletesWithRows => error' = "null"
    ]_vars

\* C38 witness: the loading phase of the first refresh has ended and rows
\* have been published: the controls are shown, no request is outstanding
\* and no error is on display
C38_Witness ==
  /\ mounted
  /\ ~loading
  /\ inflight = EmptyBag
  /\ error = "null"
  /\ lastUpdate > 0
  /\ turbidityData # <<>>

====
